---- MODULE Spec2Model ----
(***************************************************************************)
(* Shard-topology layer of the gleam flow package:                         *)
(*   - RoundRobin / Partition / PartitionByKey, which build the graph      *)
(*     (src/unnamed/part_000);                                             *)
(*   - the run of the steps they add (scatter, collect, round robin);      *)
(*   - Dataset.Output and the step function it attaches, which fans out    *)
(*     one goroutine per shard and fans their results in through errChan   *)
(*     (src/flow/dataset_output.go);                                       *)
(*   - setValueTo, which stores a decoded value into a caller's variable   *)
(*     (src/flow/dataset_output.go).                                       *)
(***************************************************************************)
EXTENDS Integers, Sequences, FiniteSets, Bags, TLC

VARIABLES
    datasets,   \* Flow's datasets, by id: [Shards, IsPartitionedBy, Step]
    steps,      \* Flow's steps, by id
    cur,        \* the dataset handle the driver program holds
    ncalls,     \* number of RoundRobin/Partition/PartitionByKey/Output calls made
    call,       \* the latest call: its arguments, its result, the graph before it
    content,    \* run time: dataset id -> the rows of each of its shards
    ran,        \* run time: steps 1..ran have run
    kind,       \* which function built the per-shard handler f
    rows,       \* rows[i]: number of rows in reader i's stream
    ferr,       \* ferr[i]: what f returns on reader i (Nil or an error)
    tasks,      \* the goroutines spawned so far: [reader, pc, left, obj, wfail]
    errChan,    \* the buffered channel: completions sent and not yet received
    drained,    \* iterations of the receive loop completed
    pc,         \* the step function: "spawn", "drain" or "returned"
    result,     \* what the step function returned
    consumed,   \* every completion the receive loop has read, in order
    stderr,     \* lines written to os.Stderr by the step function
    coerce      \* one call of setValueTo: its arguments and what came of it

graphVars == <<datasets, steps, cur, ncalls, call, content, ran, coerce>>
outVars == <<kind, rows, ferr, tasks, errChan, drained, pc, result, consumed, stderr>>
vars == <<datasets, steps, cur, ncalls, call, content, ran,
          kind, rows, ferr, tasks, errChan, drained, pc, result, consumed, stderr,
          coerce>>

(***************************************************************************)
(* Bounds of the model.                                                    *)
(***************************************************************************)
MaxShards == 2
MaxCalls == 2
MaxDataCalls == 1
MaxRows == 2
MaxReaders == 3
MaxHandlerShards == 2
MaxStreamRows == 1
MaxRRShards == 3
MaxRRRows == 5

\* A row is <<key field, value field>>; fields are small integers.
Rows == {<<1, 1>>, <<2, 1>>}

\* The key index lists a caller may pass (field positions are 1-based).
KeyIndexes == {<<>>, <<1>>, <<2>>, <<1, 2>>, <<2, 1>>}

Range(s) == {s[i] : i \in DOMAIN s}

RECURSIVE Flatten(_)
Flatten(ss) == IF ss = <<>> THEN <<>> ELSE Head(ss) \o Flatten(Tail(ss))

RECURSIVE SeqToBag(_)
SeqToBag(s) == IF s = <<>> THEN EmptyBag ELSE SetToBag({Head(s)}) (+) SeqToBag(Tail(s))

(***************************************************************************)
(* Graph construction.  A flow g is [datasets, steps]; every function      *)
(* returns the flow after it and, where the code returns a dataset, its id.*)
(***************************************************************************)

\* SortOption: Field(indexes...) and SortOption.Indexes().
Field(indexes) == [i \in DOMAIN indexes |-> [Index |-> indexes[i], Order |-> "Ascending"]]

Indexes(sortOption) == [i \in DOMAIN sortOption |-> sortOption[i].Index]

\* Flow.newNextDataset(shardSize): a dataset of shardSize shards, no partition key.
newNextDataset(g, shardSize) ==
    [g EXCEPT !.datasets = Append(@, [Shards |-> shardSize,
                                       IsPartitionedBy |-> <<>>,
                                       Step |-> 0])]

\* The step-adding functions of Flow: append a step of the given network type.
AddStep(g, networkType, input, n, output) ==
    LET id == Len(g.steps) + 1
        st == [NetworkType |-> networkType, Input |-> input, Output |-> output,
               N |-> n, Name |-> "", Instruction |-> [op |-> "none"],
               IsOnDriverSide |-> FALSE, Function |-> "none"]
    IN [datasets |-> IF output = 0 THEN g.datasets
                     ELSE [g.datasets EXCEPT ![output].Step = id],
        steps |-> Append(g.steps, st)]

AddOneToAllStep(g, input, output) == AddStep(g, "OneShardToAllShard", input, 0, output)

AddOneToEveryNStep(g, input, n, output) ==
    AddStep(g, "OneShardToEveryNShard", input, n, output)

AddLinkedNToOneStep(g, input, m, output) == AddStep(g, "LinkedNToOne", input, m, output)

\* An output of 0 is the nil output dataset.
AddAllToOneStep(g, input, output) == AddStep(g, "AllShardToOne", input, 0, output)

\* step.SetInstruction(name, ins) on the step added last.
SetInstruction(g, name, ins) ==
    [g EXCEPT !.steps[Len(g.steps)].Name = name,
              !.steps[Len(g.steps)].Instruction = ins]

intArrayEqualsLengthOnly(a, b) == Len(a) = Len(b)

intArrayEquals(a, b) ==
    IF Len(a) # Len(b) THEN FALSE
    ELSE \A i \in 1..Len(a) : a[i] = b[i]

RoundRobinKeepsKey(g, d, name, shard) ==
    IF g.datasets[d].Shards = shard THEN [g |-> g, ret |-> d]
    ELSE LET g1 == newNextDataset(g, shard)
             ret == Len(g1.datasets)
             g2 == AddOneToAllStep(g1, d, ret)
             g3 == SetInstruction(g2, name, [op |-> "RoundRobin"])
         IN [g |-> [g3 EXCEPT !.datasets[ret].IsPartitionedBy =
                                    g.datasets[d].IsPartitionedBy],
             ret |-> ret]

RoundRobinNoShortCircuit(g, d, name, shard) ==
    LET g1 == newNextDataset(g, shard)
        ret == Len(g1.datasets)
        g2 == AddOneToAllStep(g1, d, ret)
        g3 == SetInstruction(g2, name, [op |-> "RoundRobin"])
    IN [g |-> g3, ret |-> ret]

RoundRobin(g, d, name, shard) ==
    IF g.datasets[d].Shards = shard THEN [g |-> g, ret |-> d]
    ELSE LET g1 == newNextDataset(g, shard)
             ret == Len(g1.datasets)
             g2 == AddOneToAllStep(g1, d, ret)
             g3 == SetInstruction(g2, name, [op |-> "RoundRobin"])
         IN [g |-> g3, ret |-> ret]

partition_scatter(g, d, name, shardCount, indexes) ==
    LET g1 == newNextDataset(g, g.datasets[d].Shards * shardCount)
        ret == Len(g1.datasets)
        g2 == [g1 EXCEPT !.datasets[ret].IsPartitionedBy = indexes]
        g3 == AddOneToEveryNStep(g2, d, shardCount, ret)
        g4 == SetInstruction(g3, name, [op |-> "ScatterPartitions", indexes |-> indexes])
    IN [g |-> g4, ret |-> ret]

partition_collectGroupsOfTarget(g, d, name, shardCount, indexes) ==
    LET g1 == newNextDataset(g, shardCount)
        ret == Len(g1.datasets)
        g2 == [g1 EXCEPT !.datasets[ret].IsPartitionedBy = indexes]
        g3 == AddLinkedNToOneStep(g2, d, shardCount, ret)
        g4 == SetInstruction(g3, name, [op |-> "CollectPartitions"])
    IN [g |-> g4, ret |-> ret]

partition_collect(g, d, name, shardCount, indexes) ==
    LET g1 == newNextDataset(g, shardCount)
        ret == Len(g1.datasets)
        g2 == [g1 EXCEPT !.datasets[ret].IsPartitionedBy = indexes]
        g3 == AddLinkedNToOneStep(g2, d, g.datasets[d].Shards \div shardCount, ret)
        g4 == SetInstruction(g3, name, [op |-> "CollectPartitions"])
    IN [g |-> g4, ret |-> ret]

Partition(g, d, name, shard, sortOption) ==
    LET indexes == Indexes(sortOption) IN
    IF intArrayEquals(g.datasets[d].IsPartitionedBy, indexes)
          /\ shard = g.datasets[d].Shards
    THEN [g |-> g, ret |-> d]
    ELSE IF 1 = g.datasets[d].Shards /\ shard = 1
    THEN [g |-> g, ret |-> d]
    ELSE LET sc == partition_scatter(g, d, name, shard, indexes)
             co == IF shard > 1
                   THEN partition_collect(sc.g, sc.ret, name, shard, indexes)
                   ELSE sc
         IN [g |-> [co.g EXCEPT !.datasets[co.ret].IsPartitionedBy = indexes],
             ret |-> co.ret]

PartitionByKey(g, d, name, shard) == Partition(g, d, name, shard, Field(<<1>>))

OutputNotOnDriverSide(g, d, f) ==
    LET g1 == AddAllToOneStep(g, d, 0)
        id == Len(g1.steps)
    IN [g |-> [g1 EXCEPT !.steps[id].Name = "Output", !.steps[id].Function = f],
        ret |-> d]

\* Output(f): f stands for the handler the step function will run per shard.
Output(g, d, f) ==
    LET g1 == AddAllToOneStep(g, d, 0)
        id == Len(g1.steps)
    IN [g |-> [g1 EXCEPT !.steps[id].IsOnDriverSide = TRUE,
                         !.steps[id].Name = "Output",
                         !.steps[id].Function = f],
        ret |-> d]

PipeOut(g, d) == Output(g, d, "PipeOut")

Fprintf(g, d) == Output(g, d, "Fprintf")

SaveFirstRowTo(g, d) == Output(g, d, "SaveFirstRowTo")

OutputRow(g, d) == Output(g, d, "OutputRow")

(***************************************************************************)
(* Run time of the partitioning steps.  The content of a dataset is the    *)
(* sequence of its shards, each the sequence of rows written to it.  Where *)
(* several inputs feed one shard their rows are taken in input order; the  *)
(* properties below read shards as multisets only.                         *)
(***************************************************************************)

\* The values of a row at the key indexes.
KeysOf(row, indexes) == [j \in DOMAIN indexes |-> row[indexes[j]]]

\* util.HashByKeys: x = x*31 + hash(field), from 0.
RECURSIVE HashByKeys(_)
HashByKeys(data) ==
    IF data = <<>> THEN 0
    ELSE HashByKeys(SubSeq(data, 1, Len(data) - 1)) * 31 + data[Len(data)]

\* util.PartitionByKeys: the bucket of a row among shardCount buckets.
PartitionByKeys(shardCount, data) == HashByKeys(data) % shardCount

\* ScatterPartitions on a OneShardToEveryNShard step: input shard i writes its
\* bucket k to output shard k*m + i (0-based), m the number of input shards.
ScatterPartitions(inp, n, indexes) ==
    LET m == Len(inp) IN
    [j \in 1..(m * n) |->
        LET i == (j - 1) % m
            k == (j - 1) \div m
        IN SelectSeq(inp[i + 1],
                     LAMBDA r : PartitionByKeys(n, KeysOf(r, indexes)) = k)]

\* CollectPartitions on a LinkedNToOne step: output shard i reads input shards
\* i*m .. i*m + m-1 (0-based), m the group size, over outShards output shards.
CollectPartitions(inp, m, outShards) ==
    [i \in 1..outShards |->
        Flatten([k \in 1..m |-> inp[(i - 1) * m + k]])]

\* Positions of s that go to writer t of n when written in turn from writer 0.
RECURSIVE EveryNth(_, _, _, _)
EveryNth(s, pos, t, n) ==
    IF s = <<>> THEN <<>>
    ELSE (IF pos % n = t THEN <<Head(s)>> ELSE <<>>) \o EveryNth(Tail(s), pos + 1, t, n)

DoRoundRobinOneCounter(inp, outShards) ==
    [t \in 1..outShards |-> EveryNth(Flatten(inp), 0, t - 1, outShards)]

\* RoundRobin on a OneShardToAllShard step: each input shard's rows go to the
\* output shards 0, 1, .., n-1, 0, .. in arrival order.
DoRoundRobin(inp, outShards) ==
    [t \in 1..outShards |->
        Flatten([i \in 1..Len(inp) |-> EveryNth(inp[i], 0, t - 1, outShards)])]

\* What step st writes to its output dataset, given its input dataset's content.
Execute(st, inp, outShards) ==
    CASE st.Instruction.op = "ScatterPartitions" ->
            ScatterPartitions(inp, st.N, st.Instruction.indexes)
      [] st.Instruction.op = "CollectPartitions" ->
            CollectPartitions(inp, st.N, outShards)
      [] st.Instruction.op = "RoundRobin" ->
            DoRoundRobin(inp, outShards)

(***************************************************************************)
(* The driver program: calls on a dataset handle it holds, and the run of  *)
(* the steps of the graph in the order they were added.                    *)
(***************************************************************************)
Flow == [datasets |-> datasets, steps |-> steps]

\* The handles the driver applies the next call to: the source, and the
\* argument and the result of the latest call.
Handles == {1} \cup (IF call.op = "none" THEN {} ELSE {call.ret, call.d}) \cup {cur}

Returned(op, d, shard, indexes, r) ==
    /\ datasets' = r.g.datasets
    /\ steps' = r.g.steps
    /\ cur' = r.ret
    /\ call' = [op |-> op, d |-> d, shard |-> shard, indexes |-> indexes,
                ret |-> r.ret, before |-> Flow,
                prev |-> [op |-> call.op, shard |-> call.shard,
                          indexes |-> call.indexes, ret |-> call.ret]]
    /\ ncalls' = ncalls + 1
    /\ UNCHANGED <<content, ran, coerce>>
    /\ UNCHANGED outVars

CallRoundRobin(limit) ==
    /\ ncalls < limit
    /\ \E d \in Handles, shard \in 1..MaxShards :
          Returned("RoundRobin", d, shard, <<>>,
                   RoundRobin(Flow, d, "RoundRobin", shard))

CallPartition(limit) ==
    /\ ncalls < limit
    /\ \E d \in Handles, shard \in 1..MaxShards, indexes \in KeyIndexes :
          Returned("Partition", d, shard, indexes,
                   Partition(Flow, d, "Partition", shard, Field(indexes)))

CallPartitionByKey(limit) ==
    /\ ncalls < limit
    /\ \E d \in Handles, shard \in 1..MaxShards :
          Returned("PartitionByKey", d, shard, <<1>>,
                   PartitionByKey(Flow, d, "PartitionByKey", shard))

RunStep ==
    /\ ran < Len(steps)
    /\ LET st == steps[ran + 1] IN
       /\ st.Input \in DOMAIN content
       /\ content' = content @@
             (st.Output :> Execute(st, content[st.Input], datasets[st.Output].Shards))
    /\ ran' = ran + 1
    /\ UNCHANGED <<datasets, steps, cur, ncalls, call, coerce>>
    /\ UNCHANGED outVars

OutputOps == {"Output", "PipeOut", "Fprintf", "SaveFirstRowTo", "OutputRow"}

CallOutput(limit) ==
    /\ ncalls < limit
    /\ \E d \in Handles, op \in OutputOps :
          Returned(op, d, 0, <<>>,
                   CASE op = "Output" -> Output(Flow, d, "f")
                     [] op = "PipeOut" -> PipeOut(Flow, d)
                     [] op = "Fprintf" -> Fprintf(Flow, d)
                     [] op = "SaveFirstRowTo" -> SaveFirstRowTo(Flow, d)
                     [] op = "OutputRow" -> OutputRow(Flow, d))

NoCall == [op |-> "none", d |-> 0, shard |-> 0, indexes |-> <<>>, ret |-> 0,
           before |-> [datasets |-> <<>>, steps |-> <<>>],
           prev |-> [op |-> "none", shard |-> 0, indexes |-> <<>>, ret |-> 0]]

\* A Go value as a number: 2^pow2 + plus, or plus alone when pow2 is 0.  The
\* values beyond 31 bits are written this way, exactly.
Num(p, v) == [pow2 |-> p, plus |-> v]

\* A floating-point value: m * 2^e, or an infinity of the sign of m.
Flt(m, e) == [m |-> m, e |-> e, inf |-> FALSE]

Inf(sign) == [m |-> sign, e |-> 0, inf |-> TRUE]

NoCoerce == [pc |-> "idle", src |-> [kind |-> "nil", val |-> Num(0, 0)],
             dst |-> [kind |-> "nil", old |-> Num(0, 0)],
             outcome |-> "none", err |-> "nil", slot |-> Num(0, 0),
             written |-> FALSE]

CoerceIdle == coerce = NoCoerce

OutputIdle ==
    /\ kind = "none"
    /\ rows = <<>>
    /\ ferr = <<>>
    /\ tasks = <<>>
    /\ errChan = <<>>
    /\ drained = 0
    /\ pc = "idle"
    /\ result = 0
    /\ consumed = <<>>
    /\ stderr = 0

\* Sequences over S of length at most n.
SeqsUpTo(S, n) == UNION {[1..k -> S] : k \in 0..n}

\* The source dataset: 1..MaxShards shards, no partition key, no producing step.
SourceDataset(shards) == <<[Shards |-> shards, IsPartitionedBy |-> <<>>, Step |-> 0]>>

\* Graph construction alone: the source's shards hold no rows and no step runs.
InitGraph ==
    /\ \E s \in 1..MaxShards :
          /\ datasets = SourceDataset(s)
          /\ content = (1 :> [i \in 1..s |-> <<>>])
    /\ steps = <<>>
    /\ cur = 1
    /\ ncalls = 0
    /\ call = NoCall
    /\ ran = 0
    /\ OutputIdle
    /\ CoerceIdle

NextGraph ==
    \/ CallRoundRobin(MaxCalls)
    \/ CallPartition(MaxCalls)
    \/ CallPartitionByKey(MaxCalls)
    \/ CallOutput(MaxCalls)

SpecGraph == InitGraph /\ [][NextGraph]_vars

\* Construction and run: at most MaxRows rows, spread in any way over the shards.
InitData ==
    /\ \E s \in 1..MaxShards :
          /\ datasets = SourceDataset(s)
          /\ \E c \in [1..s -> SeqsUpTo(Rows, MaxRows)] :
                /\ Len(Flatten(c)) <= MaxRows
                /\ content = (1 :> c)
    /\ steps = <<>>
    /\ cur = 1
    /\ ncalls = 0
    /\ call = NoCall
    /\ ran = 0
    /\ OutputIdle
    /\ CoerceIdle

\* RoundRobin of a source and the run of its step, over more shards and
\* longer streams: up to MaxRRRows rows spread in any way over up to
\* MaxRRShards shards.  A row is <<key, stamp>>: any key, and a stamp that no
\* two rows share, which tells where each row went.
SumTo(lens, i) == Len(Flatten([j \in 1..i |-> [q \in 1..lens[j] |-> 0]]))

InitRoundRobin ==
    /\ \E s \in 1..MaxRRShards :
          /\ datasets = SourceDataset(s)
          /\ \E lens \in [1..s -> 0..MaxRRRows] :
                /\ SumTo(lens, s) <= MaxRRRows
                /\ \E keys \in [1..SumTo(lens, s) -> {1, 2}] :
                      content = (1 :> [i \in 1..s |->
                                        [q \in 1..lens[i] |->
                                            <<keys[SumTo(lens, i - 1) + q],
                                              SumTo(lens, i - 1) + q>>]])
    /\ steps = <<>>
    /\ cur = 1
    /\ ncalls = 0
    /\ call = NoCall
    /\ ran = 0
    /\ OutputIdle
    /\ CoerceIdle

CallRoundRobinOfSource ==
    /\ ncalls = 0
    /\ \E shard \in 1..MaxRRShards :
          Returned("RoundRobin", 1, shard, <<>>,
                   RoundRobin(Flow, 1, "RoundRobin", shard))

NextRoundRobin ==
    \/ CallRoundRobinOfSource
    \/ RunStep

SpecRoundRobin == InitRoundRobin /\ [][NextRoundRobin]_vars

NextData ==
    \/ CallRoundRobin(MaxDataCalls)
    \/ CallPartition(MaxDataCalls)
    \/ CallPartitionByKey(MaxDataCalls)
    \/ RunStep

SpecData == InitData /\ [][NextData]_vars

(***************************************************************************)
(* Dataset.Output: the step function run by the driver.  readers are       *)
(* numbered 1..n; the function spawns one goroutine per reader, each       *)
(* sending f(reader) on errChan, then receives n times from errChan.       *)
(***************************************************************************)
Nil == 0

NumReaders == Len(ferr)

ChanCapOneShort == IF NumReaders > 0 THEN NumReaders - 1 ELSE 0

\* make(chan error, len(readers))
ChanCap == NumReaders

\* How many times a handler writes to the object its closure captured:
\* PipeOut and Fprintf flush their bufio.Writer into writer once if anything
\* was buffered; SaveFirstRowTo stores the first row into decodedObjects;
\* OutputRow calls the caller's f once per row.
Accesses(k, nrows) ==
    CASE k = "PipeOut" -> IF nrows > 0 THEN 1 ELSE 0
      [] k = "Fprintf" -> IF nrows > 0 THEN 1 ELSE 0
      [] k = "SaveFirstRowTo" -> IF nrows > 0 THEN 1 ELSE 0
      [] k = "OutputRow" -> nrows
      [] OTHER -> 0

\* The object a handler writes: captured once by the closure, for every shard.
Captured(k) ==
    CASE k = "PipeOut" -> "writer"
      [] k = "Fprintf" -> "writer"
      [] k = "SaveFirstRowTo" -> "decodedObjects"
      [] k = "OutputRow" -> "f"
      [] OTHER -> "none"

GoFuncSharedLoopVar(i) ==
    [reader |-> NumReaders, pc |-> "running", left |-> Accesses(kind, rows[NumReaders]),
     obj |-> Captured(kind), wfail |-> FALSE]

\* go func(i int, reader io.Reader) {...}(i, reader): the goroutine of reader i.
GoFunc(i) ==
    [reader |-> i, pc |-> "running", left |-> Accesses(kind, rows[i]),
     obj |-> Captured(kind), wfail |-> FALSE]

RecvNewest(ch) == [val |-> ch[Len(ch)], rest |-> SubSeq(ch, 1, Len(ch) - 1)]

\* <-errChan on a non-empty channel: the oldest value sent.
Recv(ch) == [val |-> Head(ch), rest |-> Tail(ch)]

AggregateKeepsDraining(err, agg) ==
    IF err # Nil
    THEN [agg EXCEPT !.stderr = @ + 1, !.result = err, !.drained = @ + 1]
    ELSE [agg EXCEPT !.drained = @ + 1]

AggregateDropsError(err, agg) == [agg EXCEPT !.drained = @ + 1]

\* One iteration of the receive loop, on the value received.
Aggregate(err, agg) ==
    IF err # Nil
    THEN [agg EXCEPT !.stderr = @ + 1, !.result = err, !.pc = "returned"]
    ELSE [agg EXCEPT !.drained = @ + 1]

\* for i, reader := range readers { go func... }
Spawn ==
    /\ pc = "run"
    /\ Len(tasks) < NumReaders
    /\ tasks' = Append(tasks, GoFunc(Len(tasks) + 1))
    /\ UNCHANGED <<kind, rows, ferr, errChan, drained, pc, result, consumed, stderr>>
    /\ UNCHANGED graphVars

\* A handler starts one write to the object it captured.
WriteBegin ==
    \E t \in DOMAIN tasks :
        /\ tasks[t].pc = "running"
        /\ tasks[t].left > 0
        /\ tasks' = [tasks EXCEPT ![t].pc = "writing"]
        /\ UNCHANGED <<kind, rows, ferr, errChan, drained, pc, result, consumed, stderr>>
        /\ UNCHANGED graphVars

\* The write ends.  A write to the io.Writer may fail; for PipeOut and Fprintf
\* it is the deferred w.Flush() that writes, and its error goes to wfail only.
WriteEnd ==
    \E t \in DOMAIN tasks :
        /\ tasks[t].pc = "writing"
        /\ \E failed \in (IF tasks[t].obj = "writer" THEN BOOLEAN ELSE {FALSE}) :
              tasks' = [tasks EXCEPT ![t].pc = "running", ![t].left = @ - 1,
                                     ![t].wfail = failed]
        /\ UNCHANGED <<kind, rows, ferr, errChan, drained, pc, result, consumed, stderr>>
        /\ UNCHANGED graphVars

\* What the handler returns: the value of its return statement.  The error of
\* the deferred w.Flush() (flushFailed) is not part of it.
HandlerResult(k, bodyErr, flushFailed) == bodyErr

\* f(reader) returns; its value is about to be sent.
HandlerReturnOf(t) ==
    /\ tasks[t].pc = "running"
    /\ tasks[t].left = 0
    /\ tasks' = [tasks EXCEPT ![t].pc = "sending"]
    /\ UNCHANGED <<kind, rows, ferr, errChan, drained, pc, result, consumed, stderr>>
    /\ UNCHANGED graphVars

HandlerReturn == \E t \in DOMAIN tasks : HandlerReturnOf(t)

\* errChan <- f(reader): proceeds when the buffer has room.  shard and seq are
\* kept beside the error value to tell the completions apart.
SendOf(t) ==
    /\ tasks[t].pc = "sending"
    /\ Len(errChan) < ChanCap
    /\ errChan' = Append(errChan,
            [shard |-> tasks[t].reader,
             err |-> HandlerResult(kind, ferr[tasks[t].reader], tasks[t].wfail),
             seq |-> Len(consumed) + Len(errChan) + 1])
    /\ tasks' = [tasks EXCEPT ![t].pc = "done"]
    /\ UNCHANGED <<kind, rows, ferr, drained, pc, result, consumed, stderr>>
    /\ UNCHANGED graphVars

Send == \E t \in DOMAIN tasks : SendOf(t)

\* for range readers { err := <-errChan; if err != nil {...; return err} }
Receive ==
    /\ pc = "run"
    /\ Len(tasks) = NumReaders
    /\ drained < NumReaders
    /\ errChan # <<>>
    /\ LET r == Recv(errChan)
           agg == Aggregate(r.val.err,
                     [pc |-> pc, result |-> result, drained |-> drained,
                      stderr |-> stderr])
       IN /\ errChan' = r.rest
          /\ consumed' = Append(consumed, r.val)
          /\ pc' = agg.pc
          /\ result' = agg.result
          /\ drained' = agg.drained
          /\ stderr' = agg.stderr
    /\ UNCHANGED <<kind, rows, ferr, tasks>>
    /\ UNCHANGED graphVars

\* return nil, after the receive loop
ReturnNil ==
    /\ pc = "run"
    /\ Len(tasks) = NumReaders
    /\ drained = NumReaders
    /\ pc' = "returned"
    /\ UNCHANGED <<kind, rows, ferr, tasks, errChan, drained, result, consumed, stderr>>
    /\ UNCHANGED graphVars

GraphIdle ==
    /\ datasets = <<>>
    /\ steps = <<>>
    /\ cur = 0
    /\ ncalls = 0
    /\ call = NoCall
    /\ content = <<>>
    /\ ran = 0

StepFunctionStart ==
    /\ tasks = <<>>
    /\ errChan = <<>>
    /\ drained = 0
    /\ pc = "run"
    /\ result = Nil
    /\ consumed = <<>>
    /\ stderr = 0

\* Output(f) with a caller's f, which fails or not on each reader.
InitOutput ==
    /\ GraphIdle
    /\ kind = "f"
    /\ \E k \in 0..MaxReaders :
          /\ rows = [i \in 1..k |-> 0]
          /\ ferr \in {e \in [1..k -> 0..k] : \A i \in 1..k : e[i] \in {Nil, i}}
    /\ StepFunctionStart
    /\ CoerceIdle

NextOutput ==
    \/ Spawn
    \/ HandlerReturn
    \/ Send
    \/ Receive
    \/ ReturnNil

SpecOutput == InitOutput /\ [][NextOutput]_vars

\* The step function and the sends of the goroutines are scheduled fairly.  A
\* handler is under no obligation to return.
SpecOutputFair ==
    /\ SpecOutput
    /\ WF_vars(Spawn)
    /\ WF_vars(Send)
    /\ WF_vars(Receive)
    /\ WF_vars(ReturnNil)

\* Output(fn) with the fn of PipeOut, Fprintf, SaveFirstRowTo or OutputRow.
InitHandlers ==
    /\ GraphIdle
    /\ kind \in {"PipeOut", "Fprintf", "SaveFirstRowTo", "OutputRow"}
    /\ \E k \in 1..MaxHandlerShards :
          /\ rows \in [1..k -> 0..MaxStreamRows]
          /\ ferr \in {e \in [1..k -> 0..k] : \A i \in 1..k : e[i] \in {Nil, i}}
    /\ StepFunctionStart
    /\ CoerceIdle

NextHandlers ==
    \/ Spawn
    \/ WriteBegin
    \/ WriteEnd
    \/ HandlerReturn
    \/ Send
    \/ Receive
    \/ ReturnNil

SpecHandlers == InitHandlers /\ [][NextHandlers]_vars

(***************************************************************************)
(* setValueTo(src, dst).  A dynamic value is [kind, val]: its Go type and  *)
(* a number standing for its value.  A destination is [kind, old]: the Go  *)
(* type of dst ("nil" for a nil interface, "value" for a non-pointer,      *)
(* "*other" for a pointer to a type the switch has no case for) and what   *)
(* the slot it points to holds before the call.                            *)
(***************************************************************************)
IntKinds == {"int", "int8", "int16", "int32", "int64",
             "uint", "uint8", "uint16", "uint32", "uint64"}

FloatKinds == {"float32", "float64"}

\* The cases of the type switch.
SupportedSlots ==
    {"*string", "*[]byte", "*bool", "*float32", "*float64"}
       \cup {"*int", "*int8", "*int16", "*int32", "*int64"}
       \cup {"*uint", "*uint8", "*uint16", "*uint32", "*uint64"}

\* Among the int64 values: -1, 300 (beyond 8 bits) and 2^32 + 1 (beyond 32).
\* Among the float64 values: 2^24 + 1 and 2^24 + 3, which no float32 holds,
\* 1/2, and 2^200, which is beyond the float32 range.
SrcValues ==
    {[kind |-> "string", val |-> Num(0, 1)], [kind |-> "[]byte", val |-> Num(0, 1)],
     [kind |-> "int64", val |-> Num(0, 1)], [kind |-> "int64", val |-> Num(0, 300)],
     [kind |-> "int64", val |-> Num(0, -1)], [kind |-> "int64", val |-> Num(32, 1)],
     [kind |-> "uint8", val |-> Num(0, 1)], [kind |-> "bool", val |-> Num(0, 0)],
     [kind |-> "bool", val |-> Num(0, 1)], [kind |-> "float64", val |-> Flt(1, 0)],
     [kind |-> "float64", val |-> Flt(16777217, 0)],
     [kind |-> "float64", val |-> Flt(16777219, 0)],
     [kind |-> "float64", val |-> Flt(1, -1)],
     [kind |-> "float64", val |-> Flt(1, 200)],
     [kind |-> "nil", val |-> Num(0, 0)]}

DstValues ==
    {[kind |-> k, old |-> IF k \in {"*float32", "*float64"} THEN Flt(7, 0) ELSE Num(0, 7)] :
        k \in SupportedSlots \cup {"*other"}}
       \cup {[kind |-> "nil", old |-> Num(0, 0)], [kind |-> "value", old |-> Num(0, 0)]}

Value(v) == {[panic |-> FALSE, val |-> v]}

\* A gio conversion given a value of a kind it does not convert: it hands
\* back a zero value or it panics; setValueTo offers it no way to report an
\* error.
NotConverted == {[panic |-> FALSE, val |-> Num(0, 0)], [panic |-> TRUE, val |-> Num(0, 0)]}

NotConvertedFloat == {[panic |-> FALSE, val |-> Flt(0, 0)], [panic |-> TRUE, val |-> Flt(0, 0)]}

\* gio.ToString, gio.ToInt64, gio.ToFloat64
gioToString(src) == IF src.kind \in {"string", "[]byte"} THEN Value(src.val) ELSE NotConverted

gioToInt64(src) == IF src.kind \in IntKinds THEN Value(src.val) ELSE NotConverted

gioToFloat64(src) == IF src.kind \in FloatKinds THEN Value(src.val) ELSE NotConvertedFloat

\* src.(T): the value if src holds a T, a panic otherwise.
TypeAssert(src, k) ==
    IF src.kind = k THEN Value(src.val) ELSE {[panic |-> TRUE, val |-> Num(0, 0)]}

\* x modulo 2^N as a signed number, for half = 2^(N-1).
SignedWrap(x, half) ==
    LET u == x % (2 * half)
    IN IF u >= half THEN u - 2 * half ELSE u

\* The same number with pow2 of 0 or at least 32: a value within 32 signed
\* bits as plus alone, a value from 2^31 up to 2^32 as 2^32 less something.
\* No step of the sums leaves 32 signed bits.
Norm(x) ==
    IF x.pow2 = 0 \/ x.pow2 >= 32 THEN x
    ELSE IF x.pow2 = 31
    THEN (IF x.plus < 0 THEN Num(0, (x.plus + 2^30) + 2^30)
                        ELSE Num(32, (x.plus - 2^30) - 2^30))
    ELSE IF x.plus <= 2147483647 - 2^x.pow2
    THEN Num(0, x.plus + 2^x.pow2)
    ELSE Num(32, ((((x.plus - 2^30) - 2^30) + 2^x.pow2) - 2^30) - 2^30)

\* The conversion of the int64 x to the integer type that k points to: the
\* low N bits of x, read as signed or unsigned.  Once x is 2^pow2 + plus with
\* pow2 of 0 or at least 32, 2^pow2 drops out of every width up to 32, and x
\* is negative only as a negative plus alone.  int and uint are 64 bits wide.
Convert(x, k) ==
    LET n == Norm(x) IN
    CASE k = "*int8" -> Num(0, SignedWrap(n.plus, 128))
      [] k = "*uint8" -> Num(0, n.plus % 256)
      [] k = "*int16" -> Num(0, SignedWrap(n.plus, 32768))
      [] k = "*uint16" -> Num(0, n.plus % 65536)
      [] k = "*int32" -> Num(0, n.plus)
      [] k = "*uint32" -> IF n.plus < 0 THEN Num(32, n.plus) ELSE Num(0, n.plus)
      [] k \in {"*int", "*int64"} -> x
      [] k \in {"*uint", "*uint64"} ->
            IF n.pow2 = 0 /\ n.plus < 0 THEN Num(64, n.plus) ELSE x

\* intN(x) and uintN(x) applied to what gio.ToInt64 returned.
Narrow(r, k) == IF r.panic THEN r ELSE [r EXCEPT !.val = Convert(@, k)]

\* The number of bits of a, for 0 <= a < 2^31.
BitLen(a) ==
    IF a >= 2^30 THEN 31
    ELSE CHOOSE b \in 0..30 : a < 2^b /\ (b = 0 \/ a >= 2^(b - 1))

\* a / 2^s rounded to the nearest whole number, to the even one when a lies
\* half way; 0 <= a < 2^31 and s >= 1.
RoundShift(a, s) ==
    IF s >= 32 THEN 0
    ELSE IF s = 31 THEN (IF a > 2^30 THEN 1 ELSE 0)
    ELSE LET q == a \div 2^s
             r == a % 2^s
             half == 2^(s - 1)
         IN IF r > half \/ (r = half /\ q % 2 = 1) THEN q + 1 ELSE q

\* m * 2^e with m odd, or 0 * 2^0.
Normal(x) ==
    IF x.inf THEN x
    ELSE IF x.m = 0 THEN Flt(0, 0)
    ELSE LET t == CHOOSE c \in 0..30 :
                     /\ x.m % 2^c = 0
                     /\ \A d \in (c + 1)..30 : x.m % 2^d # 0
         IN Flt(x.m \div 2^t, x.e + t)

\* float32(x) of the float64 x = m * 2^e, |m| < 2^31: the nearest float32,
\* ties to the even mantissa.  A float32 has a mantissa of 24 bits, spacing
\* no finer than 2^-149, and magnitude below 2^128; what rounds to 2^128 or
\* beyond becomes an infinity.  The sign of a zero is not kept.
RoundToFloat32(x) ==
    IF x.inf THEN x
    ELSE IF x.m = 0 THEN Flt(0, 0)
    ELSE LET sign == IF x.m < 0 THEN -1 ELSE 1
             a == sign * x.m
             fine == BitLen(a) - 24 + x.e
             k == IF fine > -149 THEN fine ELSE -149
             s == k - x.e
             m1 == IF s <= 0 THEN a ELSE RoundShift(a, s)
             e1 == IF s <= 0 THEN x.e ELSE k
         IN IF m1 = 0 THEN Flt(0, 0)
            ELSE IF BitLen(m1) - 1 + e1 >= 128 THEN Inf(sign)
            ELSE Normal(Flt(sign * m1, e1))

\* float32(...) applied to what gio.ToFloat64 returned.
ToFloat32(r) == IF r.panic THEN r ELSE [r EXCEPT !.val = RoundToFloat32(@)]

\* The assignment `*v = ...` of the case for destination type k.
Assign(src, k) ==
    CASE k = "*string" -> gioToString(src)
      [] k = "*[]byte" -> TypeAssert(src, "[]byte")
      [] k = "*bool" -> TypeAssert(src, "bool")
      [] k = "*float32" -> {ToFloat32(r) : r \in gioToFloat64(src)}
      [] k = "*float64" -> gioToFloat64(src)
      [] OTHER -> {Narrow(r, k) : r \in gioToInt64(src)}

\* reflect.ValueOf(dst): IsValid and Kind.
ReflectCheck(dst) ==
    IF dst.kind = "nil" THEN "setValueTo nil"
    ELSE IF dst.kind = "value" THEN "setValueTo to nonsettable"
    ELSE "nil"

\* The outcomes setValueTo(src, dst) can have.
setValueTo(src, dst) ==
    IF dst.kind \in SupportedSlots
    THEN {IF w.panic
          THEN [outcome |-> "panic", err |-> "nil", slot |-> dst.old, written |-> FALSE]
          ELSE [outcome |-> "returned", err |-> ReflectCheck(dst), slot |-> w.val,
                written |-> TRUE] : w \in Assign(src, dst.kind)}
    ELSE {[outcome |-> "returned", err |-> ReflectCheck(dst), slot |-> dst.old,
           written |-> FALSE]}

CallSetValueTo ==
    /\ coerce.pc = "call"
    /\ \E r \in setValueTo(coerce.src, coerce.dst) :
          coerce' = [coerce EXCEPT !.pc = "done", !.outcome = r.outcome,
                                   !.err = r.err, !.slot = r.slot,
                                   !.written = r.written]
    /\ UNCHANGED <<datasets, steps, cur, ncalls, call, content, ran>>
    /\ UNCHANGED outVars

InitCoerce ==
    /\ GraphIdle
    /\ OutputIdle
    /\ \E src \in SrcValues, dst \in DstValues :
          coerce = [NoCoerce EXCEPT !.pc = "call", !.src = src, !.dst = dst,
                                    !.slot = dst.old]

NextCoerce == CallSetValueTo

SpecCoerce == InitCoerce /\ [][NextCoerce]_vars

(***************************************************************************)
(* Properties.                                                             *)
(***************************************************************************)
IsPartitionCall == call.op \in {"Partition", "PartitionByKey"}

Before(d) == call.before.datasets[d]

\* No two shards of out hold rows with equal values at indexes.
CoLocated(out, indexes) ==
    \A i, j \in DOMAIN out :
        i # j => \A r \in Range(out[i]), q \in Range(out[j]) :
                    KeysOf(r, indexes) # KeysOf(q, indexes)

\* C1: once the steps added by Partition(d, k, keyIndexes) have run, rows with
\* equal values at keyIndexes are in the same shard of the returned dataset,
\* and the returned dataset holds exactly the rows of d, as a multiset.
C1_PartitionCorrectness ==
    (IsPartitionCall /\ Len(steps) > Len(call.before.steps) /\ ran = Len(steps)) =>
        /\ CoLocated(content[call.ret], call.indexes)
        /\ SeqToBag(Flatten(content[call.ret])) = SeqToBag(Flatten(content[call.d]))

Last(s) == s[Len(s)]

HandlerCompleted(t) == tasks[t].pc \in {"sending", "done"}

\* C2 as stated: a failure of shard j is returned only after the handlers of
\* all shards i < j have completed.
C2_DrainsInShardOrder ==
    (pc = "returned" /\ result # Nil) =>
        \A t \in DOMAIN tasks :
            tasks[t].reader < Last(consumed).shard => HandlerCompleted(t)

\* C2 amended: completions are received in the order they were sent, and a
\* failure of shard j is returned only after shard j's handler has completed
\* and sent it.
C2_DrainsInSendOrder ==
    /\ \A k \in DOMAIN consumed : consumed[k].seq = k
    /\ (pc = "returned" /\ result # Nil) =>
          \E t \in DOMAIN tasks :
              /\ tasks[t].reader = Last(consumed).shard
              /\ tasks[t].pc = "done"

\* Three shards; the second failed and its failure was returned while the
\* first and the third handler are still running.
C2_Witness ==
    /\ NumReaders = 3
    /\ pc = "returned"
    /\ result = 2
    /\ Len(tasks) = 3
    /\ tasks[1].pc = "running"
    /\ tasks[3].pc = "running"

\* C3: the step function returns on the first failing completion it receives:
\* what it returns is that completion, every completion before it was a
\* success, it returns in the very step that receives it, the handlers still
\* running are left able to finish and to send, and nothing they do later
\* changes what was returned.
C3_ReturnsFirstFailureAtOnce ==
    /\ []((pc = "returned" /\ result # Nil) =>
            /\ consumed # <<>>
            /\ Last(consumed).err = result
            /\ \A k \in 1..(Len(consumed) - 1) : consumed[k].err = Nil)
    /\ [](pc = "returned" =>
            \A t \in DOMAIN tasks :
                /\ (tasks[t].pc = "running" /\ tasks[t].left = 0)
                      => ENABLED HandlerReturnOf(t)
                /\ tasks[t].pc = "sending" => ENABLED SendOf(t))
    /\ [][(Len(consumed') > Len(consumed) /\ Last(consumed').err # Nil) =>
            (pc' = "returned" /\ result' = Last(consumed').err)]_vars
    /\ [][pc = "returned" =>
            (pc' = "returned" /\ result' = result /\ consumed' = consumed
               /\ stderr' = stderr)]_vars

\* The step function has returned a failure, a handler is still running, and
\* another handler's later failure sits unread in the channel.
C3_Witness ==
    /\ pc = "returned"
    /\ result # Nil
    /\ \E t \in DOMAIN tasks : tasks[t].pc = "running"
    /\ \E k \in DOMAIN errChan : errChan[k].err # Nil /\ errChan[k].err # result

\* C4: the step function returns nil exactly when every handler returns nil,
\* and then only after every handler has completed; a failure it returns is
\* the value some completed handler returned.
C4_NilIffAllSucceed ==
    pc = "returned" =>
        /\ (result = Nil) <=> (\A i \in 1..NumReaders : ferr[i] = Nil)
        /\ result = Nil =>
              /\ Len(tasks) = NumReaders
              /\ \A t \in DOMAIN tasks : tasks[t].pc = "done"
        /\ result # Nil =>
              \E t \in DOMAIN tasks :
                  /\ HandlerCompleted(t)
                  /\ ferr[tasks[t].reader] = result

\* Nil returned over at least two shards, all of which succeeded.
C4_Witness ==
    /\ pc = "returned"
    /\ result = Nil
    /\ NumReaders >= 2
    /\ drained = NumReaders

Completions == consumed \o errChan

\* C5: goroutine i is the one invocation of f on reader i, so no reader is
\* handled twice, none is skipped once the spawn loop is over, and each
\* goroutine sends one completion: NumReaders in all, one per shard.
C5_OneTaskPerShard ==
    /\ Len(tasks) <= NumReaders
    /\ \A t \in DOMAIN tasks : tasks[t].reader = t
    /\ pc = "returned" => {tasks[t].reader : t \in DOMAIN tasks} = 1..NumReaders
    /\ Len(Completions) = Cardinality({t \in DOMAIN tasks : tasks[t].pc = "done"})
    /\ Len(Completions) <= NumReaders
    /\ \A j, k \in DOMAIN Completions :
          j # k => Completions[j].shard # Completions[k].shard

\* Every goroutine of a run over several shards has sent its completion.
C5_Witness ==
    /\ NumReaders >= 2
    /\ Len(tasks) = NumReaders
    /\ \A t \in DOMAIN tasks : tasks[t].pc = "done"
    /\ Len(Completions) = NumReaders
    /\ {Completions[k].shard : k \in DOMAIN Completions} = 1..NumReaders

\* C6: no two shard tasks are at the same time inside a write to the same
\* object (the writer, the destination slots, the caller's callback).
C6_NoConflictingWrites ==
    \A t, u \in DOMAIN tasks :
        (t # u /\ tasks[t].pc = "writing" /\ tasks[u].pc = "writing")
            => tasks[t].obj # tasks[u].obj

\* C7: Partition(_, k, idx) applied to the result of Partition(d, k, idx) adds
\* no step and returns a dataset of the same shard count and partition key.
C7_PartitionIdempotent ==
    (/\ IsPartitionCall
     /\ call.prev.op \in {"Partition", "PartitionByKey"}
     /\ call.d = call.prev.ret
     /\ call.shard = call.prev.shard
     /\ call.indexes = call.prev.indexes) =>
        /\ steps = call.before.steps
        /\ datasets[call.ret].Shards = Before(call.d).Shards
        /\ datasets[call.ret].IsPartitionedBy = Before(call.d).IsPartitionedBy

ShortCircuits ==
    \/ /\ Before(call.d).IsPartitionedBy = call.indexes
       /\ Before(call.d).Shards = call.shard
    \/ /\ Before(call.d).Shards = 1
       /\ call.shard = 1

\* C8: Partition returns its input, with the graph left as it was, when the
\* partition key is keyIndexes and the shard count is the target, or when
\* both shard counts are 1; in every other case it adds at least one step.
C8_PartitionShortCircuit ==
    IsPartitionCall =>
        IF ShortCircuits
        THEN /\ call.ret = call.d
             /\ steps = call.before.steps
             /\ datasets = call.before.datasets
        ELSE Len(steps) >= Len(call.before.steps) + 1

\* Partition short-circuited on a dataset of several shards already
\* partitioned by a non-empty key.
C8_Witness ==
    /\ IsPartitionCall
    /\ ShortCircuits
    /\ call.indexes # <<>>
    /\ Before(call.d).Shards > 1
    /\ call.ret = call.d

\* C9: RoundRobin(d, t) returns d and leaves the graph as it was when d has t
\* shards; otherwise it adds one step, from d to a new dataset of t shards,
\* and leaves d and everything else in the graph as they were.
C9_RoundRobinFrame ==
    call.op = "RoundRobin" =>
        IF call.shard = Before(call.d).Shards
        THEN /\ call.ret = call.d
             /\ steps = call.before.steps
             /\ datasets = call.before.datasets
        ELSE /\ Len(steps) = Len(call.before.steps) + 1
             /\ SubSeq(steps, 1, Len(call.before.steps)) = call.before.steps
             /\ Last(steps).Input = call.d
             /\ Last(steps).Output = call.ret
             /\ Len(datasets) = Len(call.before.datasets) + 1
             /\ call.ret = Len(datasets)
             /\ datasets[call.ret].Shards = call.shard
             /\ SubSeq(datasets, 1, Len(call.before.datasets)) = call.before.datasets

\* RoundRobin added a step from a dataset of several shards to a new one.
C9_Witness ==
    /\ call.op = "RoundRobin"
    /\ call.shard # Before(call.d).Shards
    /\ Before(call.d).Shards > 1
    /\ call.ret # call.d
    /\ Len(steps) = Len(call.before.steps) + 1

\* C10 as stated: the dataset RoundRobin returns has an empty partition key.
C10_RoundRobinClearsKey ==
    call.op = "RoundRobin" => datasets[call.ret].IsPartitionedBy = <<>>

\* C10 amended: the dataset RoundRobin returns has an empty partition key when
\* the target differs from d's shard count; when it equals it, d is returned
\* with the partition key it had.
C10_RoundRobinKey ==
    call.op = "RoundRobin" =>
        IF call.shard # Before(call.d).Shards
        THEN datasets[call.ret].IsPartitionedBy = <<>>
        ELSE /\ call.ret = call.d
             /\ datasets[call.ret].IsPartitionedBy = Before(call.d).IsPartitionedBy

\* RoundRobin to another shard count, on a dataset partitioned by a key.
C10_Witness ==
    /\ call.op = "RoundRobin"
    /\ call.shard # Before(call.d).Shards
    /\ Before(call.d).IsPartitionedBy # <<>>
    /\ datasets[call.ret].IsPartitionedBy = <<>>

\* C11: a returned dataset whose partition key is not empty holds, once the
\* steps producing it have run, all rows with equal values at that key in one
\* shard.
C11_PartitionKeyInvariant ==
    (/\ call.op # "none"
     /\ ran = Len(steps)
     /\ datasets[call.ret].IsPartitionedBy # <<>>) =>
        CoLocated(content[call.ret], datasets[call.ret].IsPartitionedBy)

\* Where row r lies in out: the pairs <<shard, position>>, shards from 0.
Places(out, r) ==
    {pl \in UNION {{<<t - 1, q>> : q \in DOMAIN out[t]} : t \in DOMAIN out} :
        out[pl[1] + 1][pl[2]] = r}

\* The output shard (from 0) of a row that lies in one place.
ShardOf(out, r) == (CHOOSE pl \in Places(out, r) : TRUE)[1]

\* C12: RoundRobin keeps every row exactly once: the output holds as many rows
\* as the input and every input row lies in exactly one place of it; after a
\* redistribution into T shards the first row of each input shard is in shard
\* 0 and each later row in the shard after its predecessor's, T-1 followed by
\* 0; and from a single input shard of L rows every output shard gets between
\* floor(L/T) and ceil(L/T) rows.
C12_RoundRobinConservation ==
    (call.op = "RoundRobin" /\ ran = Len(steps)) =>
        LET inp == content[call.d]
            out == content[call.ret]
            T == call.shard
            L == Len(Flatten(inp))
        IN /\ Len(out) = T
           /\ Len(Flatten(out)) = L
           /\ \A i \in DOMAIN inp : \A q \in DOMAIN inp[i] :
                 Cardinality(Places(out, inp[i][q])) = 1
           /\ call.ret # call.d =>
                 \A i \in DOMAIN inp : \A q \in DOMAIN inp[i] :
                    ShardOf(out, inp[i][q]) =
                       IF q = 1 THEN 0
                       ELSE (ShardOf(out, inp[i][q - 1]) + 1) % T
           /\ Len(inp) = 1 =>
                 \A t \in 1..T :
                    /\ Len(out[t]) >= L \div T
                    /\ Len(out[t]) <= (L + T - 1) \div T

\* Two input shards were redistributed over three: the first held four rows,
\* so its fourth row came back to shard 0, and the second began at shard 0
\* again.
C12_Witness ==
    /\ call.op = "RoundRobin"
    /\ call.ret # call.d
    /\ ran = Len(steps)
    /\ Len(content[call.d]) = 2
    /\ call.shard = 3
    /\ Len(content[call.d][1]) = 4
    /\ Len(content[call.d][2]) = 1
    /\ ShardOf(content[call.ret], content[call.d][1][4]) = 0
    /\ ShardOf(content[call.ret], content[call.d][2][1]) = 0
    /\ Len(content[call.ret][1]) = 3

\* C13: a PipeOut or Fprintf handler whose write to the destination writer
\* failed, the flush at its exit included, sends a failure, and the step
\* function then does not return nil.
C13_NoWriteErrorSwallowed ==
    /\ \A k \in DOMAIN Completions :
          (\E t \in DOMAIN tasks :
              tasks[t].reader = Completions[k].shard /\ tasks[t].wfail)
            => Completions[k].err # Nil
    /\ (pc = "returned" /\ \E t \in DOMAIN tasks : tasks[t].wfail) => result # Nil

CoerceDone == coerce.pc = "done"

\* C14: setValueTo returns an error, and writes nothing, whenever dst is not
\* a pointer to one of the supported scalar types: nil, a non-pointer, or a
\* pointer to any other type.
C14_RejectsInvalidDestination ==
    (CoerceDone /\ coerce.dst.kind \notin SupportedSlots) =>
        /\ coerce.outcome = "returned"
        /\ coerce.err # "nil"
        /\ ~coerce.written
        /\ coerce.slot = coerce.dst.old

\* A value whose kind a bool or []byte slot cannot take.  (A string slot is
\* filled by gio.ToString, a function of another package.)
CrossKind(src, k) ==
    \/ k = "*bool" /\ src.kind # "bool"
    \/ k = "*[]byte" /\ src.kind \notin {"[]byte", "string"}

\* C15: setValueTo asked to store a value of an incompatible kind into a
\* bool or []byte slot returns an error: it does not panic, and it does not
\* report success.
C15_CrossKindFails ==
    (CoerceDone /\ CrossKind(coerce.src, coerce.dst.kind)) =>
        /\ coerce.outcome = "returned"
        /\ coerce.err # "nil"

\* The steps the latest call added, in order.
Added == SubSeq(steps, Len(call.before.steps) + 1, Len(steps))

\* C16: a Partition call that does not short-circuit, on a dataset of S shards
\* with target T, adds one scatter step, from d to a dataset of S*T shards
\* keyed by keyIndexes, and adds a collect step if and only if T > 1; the
\* collect step is linked-N-to-one with group size S, from the scatter's
\* output to a dataset of T shards, so its input has output shards * group
\* size shards.
C16_TwoPhaseShape ==
    (IsPartitionCall /\ ~ShortCircuits) =>
        LET S == Before(call.d).Shards
            T == call.shard
        IN /\ SubSeq(steps, 1, Len(call.before.steps)) = call.before.steps
           /\ Len(Added) = IF T > 1 THEN 2 ELSE 1
           /\ Added[1].NetworkType = "OneShardToEveryNShard"
           /\ Added[1].Instruction.op = "ScatterPartitions"
           /\ Added[1].Input = call.d
           /\ Added[1].Output \notin DOMAIN call.before.datasets
           /\ datasets[Added[1].Output].Shards = S * T
           /\ datasets[Added[1].Output].IsPartitionedBy = call.indexes
           /\ T > 1 =>
                 /\ Added[2].NetworkType = "LinkedNToOne"
                 /\ Added[2].Instruction.op = "CollectPartitions"
                 /\ Added[2].Input = Added[1].Output
                 /\ Added[2].N = S
                 /\ Added[2].Output = call.ret
                 /\ datasets[Added[2].Output].Shards = T
                 /\ datasets[Added[2].Input].Shards
                       = datasets[Added[2].Output].Shards * Added[2].N

\* Partition of a dataset of one shard into two added a scatter and a collect
\* step whose group size differs from the target.
C16_Witness ==
    /\ IsPartitionCall
    /\ ~ShortCircuits
    /\ Before(call.d).Shards = 1
    /\ call.shard = 2
    /\ Len(Added) = 2
    /\ Added[2].N = 1

\* C17: the dataset Partition(d, k, keyIndexes) returns has k shards, and has
\* partition key keyIndexes unless d and the target both have one shard.
C17_PartitionResultShape ==
    IsPartitionCall =>
        /\ datasets[call.ret].Shards = call.shard
        /\ ~(Before(call.d).Shards = 1 /\ call.shard = 1) =>
              datasets[call.ret].IsPartitionedBy = call.indexes

Sending(t) == t \in DOMAIN tasks /\ tasks[t].pc = "sending"

Ended(t) == t \in DOMAIN tasks /\ tasks[t].pc = "done"

AllHandlersTerminated ==
    /\ Len(tasks) = NumReaders
    /\ \A t \in DOMAIN tasks : HandlerCompleted(t)

\* C18: a task whose handler has returned can always send its completion at
\* once, whether or not the step function has already returned, and so it
\* ends; and if every handler returns, the step function returns.
C18_CompletionNeverBlocks ==
    /\ [](\A t \in 1..MaxReaders :
            Sending(t) => (Len(errChan) < ChanCap /\ ENABLED SendOf(t)))
    /\ \A t \in 1..MaxReaders : Sending(t) ~> Ended(t)
    /\ (<>[]AllHandlersTerminated) => <>(pc = "returned")

\* The step function returned a failure before all completions were read, and
\* every task has since sent its completion and ended.
C18_Witness ==
    /\ pc = "returned"
    /\ result # Nil
    /\ NumReaders > 1
    /\ drained < NumReaders
    /\ \A t \in DOMAIN tasks : tasks[t].pc = "done"
    /\ Len(tasks) = NumReaders
    /\ errChan # <<>>

\* C19: Output, PipeOut, Fprintf, SaveFirstRowTo and OutputRow each add one
\* step, driver-side, from all shards of d to no dataset; they leave every
\* dataset as it was, run nothing, and return d.
C19_OutputFrame ==
    call.op \in OutputOps =>
        /\ Len(steps) = Len(call.before.steps) + 1
        /\ SubSeq(steps, 1, Len(call.before.steps)) = call.before.steps
        /\ Last(steps).IsOnDriverSide
        /\ Last(steps).NetworkType = "AllShardToOne"
        /\ Last(steps).Input = call.d
        /\ Last(steps).Output = 0
        /\ Last(steps).Function = (IF call.op = "Output" THEN "f" ELSE call.op)
        /\ datasets = call.before.datasets
        /\ call.ret = call.d
        /\ ran = 0
        /\ tasks = <<>>
        /\ errChan = <<>>
        /\ pc = "idle"

\* PipeOut was called on the dataset of several shards that a Partition call
\* had just returned.
C19_Witness ==
    /\ call.op = "PipeOut"
    /\ call.prev.op = "Partition"
    /\ call.d = call.prev.ret
    /\ datasets[call.d].Shards > 1
    /\ datasets[call.d].IsPartitionedBy # <<>>
    /\ Len(steps) = Len(call.before.steps) + 1
    /\ Last(steps).IsOnDriverSide

====
